---- MODULE Spec2Model ----
(***************************************************************************)
(* A model of the SVG builder of src/svg.cpp: Color, the Figure style      *)
(* setters, the three shapes Circle / Polyline / Text with their stream    *)
(* operators, and Document with Add and Render.                            *)
(*                                                                         *)
(* Text written to a stream is kept as the sequence of the operands of     *)
(* operator<< (one element per write) and flattened to the byte string     *)
(* where the bytes matter.  A double is modelled by an integer-valued      *)
(* double and formatted as the stream's default format does (%g with six   *)
(* significant digits).                                                    *)
(***************************************************************************)
EXTENDS Integers, Sequences, FiniteSets, TLC

VARIABLES
    caller,     \* the shape object the calling code holds and configures
    heap,       \* the objects make_unique allocated; heap[p] is at address p
    figures_,   \* Document::figures_ : the owning pointers, in order
    sink,       \* the stream handed to the latest Render / print call
    lastOp,     \* the operation the calling code performed last
    hist        \* history: what the calling code passed in so far

vars == <<caller, heap, figures_, sink, lastOp, hist>>

----------------------------------------------------------------------------
(* Bounds of the model *)

MaxFigures == 2
MaxPoints == 2

----------------------------------------------------------------------------
(* Number formatting of the output stream *)

UShortRange == 65536

RECURSIVE Pow10(_)
Pow10(n) == IF n = 0 THEN 1 ELSE 10 * Pow10(n - 1)

RECURSIVE NumDigits(_)
NumDigits(n) == IF n < 10 THEN 1 ELSE 1 + NumDigits(n \div 10)

RECURSIVE Zeros(_)
Zeros(n) == IF n <= 0 THEN "" ELSE "0" \o Zeros(n - 1)

\* f printed in w digits, leading zeros kept
PadDigits(f, w) == Zeros(w - NumDigits(f)) \o ToString(f)

\* the fraction digits of a mantissa, trailing zeros removed (%g drops them)
RECURSIVE FracDigits(_, _)
FracDigits(f, w) ==
    IF f = 0 THEN ""
    ELSE IF f % 10 = 0 THEN FracDigits(f \div 10, w - 1)
    ELSE PadDigits(f, w)

\* operator<<(double) with the stream's default flags and precision 6, for an
\* integer-valued double: fixed notation below 10^6, scientific from there on
FormatDouble(v) ==
    LET a    == IF v < 0 THEN 0 - v ELSE v
        sign == IF v < 0 THEN "-" ELSE ""
    IN  IF a < 1000000
        THEN sign \o ToString(a)
        ELSE LET e0    == NumDigits(a) - 1
                 scale == Pow10(e0 - 5)
                 q     == a \div scale
                 r     == a % scale
                 m0    == IF 2 * r > scale \/ (2 * r = scale /\ q % 2 = 1)
                          THEN q + 1 ELSE q
                 carry == m0 >= 1000000
                 m     == IF carry THEN m0 \div 10 ELSE m0
                 e     == IF carry THEN e0 + 1 ELSE e0
                 frac  == FracDigits(m % 100000, 5)
             IN  sign \o ToString(m \div 100000)
                      \o (IF frac = "" THEN "" ELSE "." \o frac)
                      \o "e+" \o PadDigits(e, 2)

\* operator<<(unsigned short) and operator<<(uint32_t): plain decimal
FormatUnsigned(n) == ToString(n)

----------------------------------------------------------------------------
(* Values *)

Point(x, y) == [x |-> x, y |-> y]

Rgb(r, g, b) == [red |-> r % UShortRange, green |-> g % UShortRange,
                 blue |-> b % UShortRange]

NullOpt == [has |-> FALSE, val |-> ""]
Some(s) == [has |-> TRUE, val |-> s]

\* Color: optional<variant<string, Rgb>>
NoneColor == [tag |-> "none", name |-> "", rgb |-> Rgb(0, 0, 0)]
NamedColor(s) == [tag |-> "named", name |-> s, rgb |-> Rgb(0, 0, 0)]
RgbColor(c) == [tag |-> "rgb", name |-> "", rgb |-> c]

\* the Rgb stream operator as it would be if it clamped channels to 8 bits
RgbTokensClamped(val) ==
    LET Clamp(c) == IF c > 255 THEN 255 ELSE c
    IN  <<"rgb(", FormatUnsigned(Clamp(val.red)), ",",
          FormatUnsigned(Clamp(val.green)), ",",
          FormatUnsigned(Clamp(val.blue)), ")">>

\* operator<<(ostream&, const Rgb&)
RgbTokens(val) ==
    <<"rgb(", FormatUnsigned(val.red), ",", FormatUnsigned(val.green), ",",
      FormatUnsigned(val.blue), ")">>

\* operator<<(ostream&, const Color&)
ColorTokens(val) ==
    IF val.tag # "none"
    THEN IF val.tag = "named" THEN <<val.name>> ELSE RgbTokens(val.rgb)
    ELSE <<"none">>

----------------------------------------------------------------------------
(* Shapes *)

\* Figure<Derived>::Figure()
FigureFields ==
    [fillColor_ |-> NoneColor, strokeColor_ |-> NoneColor, strokeWidth_ |-> 1,
     strokeLineCap_ |-> NullOpt, strokeLineJoin_ |-> NullOpt]

\* Circle::Circle(): radius_ is left out of the initializer list, so the
\* object starts with whatever value its storage held (indeterminate)
NewCircle(indeterminate) ==
    [kind |-> "Circle", centerX_ |-> 0, centerY_ |-> 0,
     radius_ |-> indeterminate] @@ FigureFields

\* Polyline::Polyline()
NewPolyline == [kind |-> "Polyline", points_ |-> <<>>] @@ FigureFields

\* Text::Text(): point_ and offset_ take Point's member initializers
NewText ==
    [kind |-> "Text", point_ |-> Point(0, 0), offset_ |-> Point(0, 0),
     fontSize_ |-> 1, fontFamily_ |-> NullOpt, data_ |-> ""] @@ FigureFields

Kinds == {"Circle", "Polyline", "Text"}

NewFigure(kind, indeterminate) ==
    CASE kind = "Circle" -> NewCircle(indeterminate)
      [] kind = "Polyline" -> NewPolyline
      [] kind = "Text" -> NewText

\* an optional attribute as it would be if it were written unconditionally
OptAttrAlways(name, opt) == <<name, opt.val, "\" ">>

\* an optional attribute, written only when it has a value
OptAttr(name, opt) == IF opt.has THEN <<name, opt.val, "\" ">> ELSE <<>>

\* operator<<(ostream&, const Circle&)
CircleTokens(val) ==
    <<"<circle ">>
    \o <<"cx=\"", FormatDouble(val.centerX_), "\" ">>
    \o <<"cy=\"", FormatDouble(val.centerY_), "\" ">>
    \o <<"r=\"", FormatDouble(val.radius_), "\" ">>
    \o <<"fill=\"">> \o ColorTokens(val.fillColor_) \o <<"\" ">>
    \o <<"stroke=\"">> \o ColorTokens(val.strokeColor_) \o <<"\" ">>
    \o <<"stroke-width=\"", FormatDouble(val.strokeWidth_), "\" ">>
    \o OptAttr("stroke-linecap=\"", val.strokeLineCap_)
    \o OptAttr("stroke-linejoin=\"", val.strokeLineJoin_)
    \o <<"/>">>

\* the loop over points_ as it would be if the space only separated points
RECURSIVE PointsTokensJoined(_)
PointsTokensJoined(points) ==
    IF points = <<>> THEN <<>>
    ELSE <<FormatDouble(Head(points).x), ",", FormatDouble(Head(points).y)>>
         \o (IF Tail(points) = <<>> THEN <<>> ELSE <<" ">>)
         \o PointsTokensJoined(Tail(points))

\* the loop over points_ of the Polyline stream operator
RECURSIVE PointsTokens(_)
PointsTokens(points) ==
    IF points = <<>> THEN <<>>
    ELSE <<FormatDouble(Head(points).x), ",", FormatDouble(Head(points).y), " ">>
         \o PointsTokens(Tail(points))

\* operator<<(ostream&, const Polyline&)
PolylineTokens(val) ==
    <<"<polyline points=\"">>
    \o PointsTokens(val.points_)
    \o <<"\" ">>
    \o <<"fill=\"">> \o ColorTokens(val.fillColor_) \o <<"\" ">>
    \o <<"stroke=\"">> \o ColorTokens(val.strokeColor_) \o <<"\" ">>
    \o <<"stroke-width=\"", FormatDouble(val.strokeWidth_), "\" ">>
    \o OptAttr("stroke-linecap=\"", val.strokeLineCap_)
    \o OptAttr("stroke-linejoin=\"", val.strokeLineJoin_)
    \o <<"/>">>

\* the Text stream operator as it would be if the font family had an
\* attribute name of its own
TextTokensFontFamily(val) ==
    <<"<text ">>
    \o <<"x=\"", FormatDouble(val.point_.x), "\" ">>
    \o <<"y=\"", FormatDouble(val.point_.y), "\" ">>
    \o <<"dx=\"", FormatDouble(val.offset_.x), "\" ">>
    \o <<"dy=\"", FormatDouble(val.offset_.y), "\" ">>
    \o <<"fill=\"">> \o ColorTokens(val.fillColor_) \o <<"\" ">>
    \o <<"stroke=\"">> \o ColorTokens(val.strokeColor_) \o <<"\" ">>
    \o <<"font-size=\"", FormatUnsigned(val.fontSize_), "\" ">>
    \o <<"stroke-width=\"", FormatDouble(val.strokeWidth_), "\" ">>
    \o (IF val.fontFamily_.has
        THEN <<"font-family=\"", val.fontFamily_.val, "\" ">> ELSE <<>>)
    \o (IF val.strokeLineCap_.has
        THEN <<"stroke-linecap=\"", val.strokeLineCap_.val, "\" ">> ELSE <<>>)
    \o (IF val.strokeLineJoin_.has
        THEN <<"stroke-linejoin=\"", val.strokeLineJoin_.val, "\" ">> ELSE <<>>)
    \o <<">", val.data_, "</text>">>

\* operator<<(ostream&, const Text&)
TextTokens(val) ==
    <<"<text ">>
    \o <<"x=\"", FormatDouble(val.point_.x), "\" ">>
    \o <<"y=\"", FormatDouble(val.point_.y), "\" ">>
    \o <<"dx=\"", FormatDouble(val.offset_.x), "\" ">>
    \o <<"dy=\"", FormatDouble(val.offset_.y), "\" ">>
    \o <<"fill=\"">> \o ColorTokens(val.fillColor_) \o <<"\" ">>
    \o <<"stroke=\"">> \o ColorTokens(val.strokeColor_) \o <<"\" ">>
    \o <<"font-size=\"", FormatUnsigned(val.fontSize_), "\" ">>
    \o <<"stroke-width=\"", FormatDouble(val.strokeWidth_), "\" ">>
    \o OptAttr("stroke-linejoin=\"", val.fontFamily_)
    \o OptAttr("stroke-linecap=\"", val.strokeLineCap_)
    \o OptAttr("stroke-linejoin=\"", val.strokeLineJoin_)
    \o <<">", val.data_, "</text>">>

\* Figure<Derived>::print: the stream operator of the concrete shape
print(val) ==
    CASE val.kind = "Circle" -> CircleTokens(val)
      [] val.kind = "Polyline" -> PolylineTokens(val)
      [] val.kind = "Text" -> TextTokens(val)

----------------------------------------------------------------------------
(* The output stream *)

FreshSink == [buf |-> <<>>, bad |-> FALSE, thrown |-> FALSE]

\* The writes toks, in order, to a fresh stream whose buffer fails at write
\* number failAt (0: never).  The failing write sets badbit; with exc (the
\* caller enabled exceptions on the stream) it throws out of operator<<,
\* otherwise every later write finds the stream bad and writes nothing.
Write(toks, failAt, exc) ==
    IF failAt \in 1..Len(toks)
    THEN [buf |-> SubSeq(toks, 1, failAt - 1), bad |-> TRUE, thrown |-> exc]
    ELSE [buf |-> toks, bad |-> FALSE, thrown |-> FALSE]

\* the bytes of a sequence of writes
RECURSIVE Flatten(_)
Flatten(toks) ==
    IF toks = <<>> THEN "" ELSE Head(toks) \o Flatten(Tail(toks))

----------------------------------------------------------------------------
(* Operations *)

\* address 0 is the calling code's own object, 1.. are make_unique's objects
Deref(p) == IF p = 0 THEN caller ELSE heap[p]

\* the part every call of the calling code shares: the stream of an earlier
\* rendering is not looked at again (each rendering gets a fresh stream)
Called(op) == sink' = FreshSink /\ lastOp' = op

\* history: what is remembered of a rendering lasts until the next other call
Forget(h) == [h EXCEPT !.failAt = 0, !.exc = FALSE, !.prev = "none"]

\* history of a setter call: attribute a was last given the value v
Passed(a, v) == hist' = [Forget(hist) EXCEPT !.set = (a :> v) @@ @]

\* Circle{}, Polyline{}, Text{}: the calling code starts a new shape object
Construct(kind, indeterminate) ==
    /\ caller' = NewFigure(kind, indeterminate)
    /\ hist' = [Forget(hist) EXCEPT !.base = caller', !.set = <<>>,
                                    !.pts = <<>>, !.callerAdded = FALSE]
    /\ Called("Construct")
    /\ UNCHANGED <<heap, figures_>>

\* Figure::SetFillColor(const Color&)
SetFillColor(color) ==
    /\ caller' = [caller EXCEPT !.fillColor_ = color]
    /\ Passed("fillColor_", color)
    /\ Called("Set")
    /\ UNCHANGED <<heap, figures_>>

\* Figure::SetFillColor(string): builds a Color from the text
SetFillColorString(color) ==
    /\ caller' = [caller EXCEPT !.fillColor_ = NamedColor(color)]
    /\ Passed("fillColor_", NamedColor(color))
    /\ Called("Set")
    /\ UNCHANGED <<heap, figures_>>

\* SetStrokeColor as it would be if it assigned the fill colour
SetStrokeColorWrongField(color) ==
    /\ caller' = [caller EXCEPT !.fillColor_ = color]
    /\ Passed("strokeColor_", color)
    /\ Called("Set")
    /\ UNCHANGED <<heap, figures_>>

\* Figure::SetStrokeColor
SetStrokeColor(color) ==
    /\ caller' = [caller EXCEPT !.strokeColor_ = color]
    /\ Passed("strokeColor_", color)
    /\ Called("Set")
    /\ UNCHANGED <<heap, figures_>>

\* Figure::SetStrokeWidth
SetStrokeWidth(width) ==
    /\ caller' = [caller EXCEPT !.strokeWidth_ = width]
    /\ Passed("strokeWidth_", width)
    /\ Called("Set")
    /\ UNCHANGED <<heap, figures_>>

\* Figure::SetStrokeLineCap
SetStrokeLineCap(lineCap) ==
    /\ caller' = [caller EXCEPT !.strokeLineCap_ = Some(lineCap)]
    /\ Passed("strokeLineCap_", Some(lineCap))
    /\ Called("Set")
    /\ UNCHANGED <<heap, figures_>>

\* Figure::SetStrokeLineJoin
SetStrokeLineJoin(lineJoin) ==
    /\ caller' = [caller EXCEPT !.strokeLineJoin_ = Some(lineJoin)]
    /\ Passed("strokeLineJoin_", Some(lineJoin))
    /\ Called("Set")
    /\ UNCHANGED <<heap, figures_>>

\* Circle::SetCenter
SetCenter(center) ==
    /\ caller.kind = "Circle"
    /\ caller' = [caller EXCEPT !.centerX_ = center.x, !.centerY_ = center.y]
    /\ hist' = [Forget(hist) EXCEPT
                  !.set = ("centerX_" :> center.x) @@ ("centerY_" :> center.y) @@ @]
    /\ Called("Set")
    /\ UNCHANGED <<heap, figures_>>

\* Circle::SetRadius
SetRadius(r) ==
    /\ caller.kind = "Circle"
    /\ caller' = [caller EXCEPT !.radius_ = r]
    /\ Passed("radius_", r)
    /\ Called("Set")
    /\ UNCHANGED <<heap, figures_>>

\* Polyline::AddPoint
AddPoint(point) ==
    /\ caller.kind = "Polyline"
    /\ Len(caller.points_) < MaxPoints
    /\ caller' = [caller EXCEPT !.points_ = Append(@, point)]
    /\ hist' = [Forget(hist) EXCEPT !.pts = Append(@, point)]
    /\ Called("Set")
    /\ UNCHANGED <<heap, figures_>>

\* Text::SetPoint
SetPoint(point) ==
    /\ caller.kind = "Text"
    /\ caller' = [caller EXCEPT !.point_ = point]
    /\ Passed("point_", point)
    /\ Called("Set")
    /\ UNCHANGED <<heap, figures_>>

\* Text::SetOffset
SetOffset(offset) ==
    /\ caller.kind = "Text"
    /\ caller' = [caller EXCEPT !.offset_ = offset]
    /\ Passed("offset_", offset)
    /\ Called("Set")
    /\ UNCHANGED <<heap, figures_>>

\* Text::SetFontSize
SetFontSize(size) ==
    /\ caller.kind = "Text"
    /\ caller' = [caller EXCEPT !.fontSize_ = size]
    /\ Passed("fontSize_", size)
    /\ Called("Set")
    /\ UNCHANGED <<heap, figures_>>

\* Text::SetFontFamily
SetFontFamily(family) ==
    /\ caller.kind = "Text"
    /\ caller' = [caller EXCEPT !.fontFamily_ = Some(family)]
    /\ Passed("fontFamily_", Some(family))
    /\ Called("Set")
    /\ UNCHANGED <<heap, figures_>>

\* Text::SetData
SetData(data) ==
    /\ caller.kind = "Text"
    /\ caller' = [caller EXCEPT !.data_ = data]
    /\ Passed("data_", data)
    /\ Called("Set")
    /\ UNCHANGED <<heap, figures_>>

\* shape.print(stream): one shape written to a stream of the calling code
CallPrint(failAt, exc) ==
    /\ sink' = Write(print(caller), failAt, exc)
    /\ lastOp' = "print"
    /\ hist' = [Forget(hist) EXCEPT !.failAt = failAt, !.exc = exc]
    /\ UNCHANGED <<caller, heap, figures_>>

\* Add as it would be if the new shape went to the front of figures_
AddFront ==
    /\ Len(figures_) < MaxFigures
    /\ heap' = Append(heap, caller)
    /\ figures_' = <<Len(heap) + 1>> \o figures_
    /\ hist' = [Forget(hist) EXCEPT !.added = Append(@, caller),
                                    !.callerAdded = TRUE]
    /\ Called("Add")
    /\ UNCHANGED caller

\* Add as it would be if the Document kept a pointer to the caller's object
AddAlias ==
    /\ Len(figures_) < MaxFigures
    /\ figures_' = Append(figures_, 0)
    /\ hist' = [Forget(hist) EXCEPT !.added = Append(@, caller),
                                    !.callerAdded = TRUE]
    /\ Called("Add")
    /\ UNCHANGED <<caller, heap>>

\* Document::Add(T figure): the parameter is a copy of the caller's object;
\* make_unique moves it into a new heap object, whose pointer is pushed back
Add ==
    /\ Len(figures_) < MaxFigures
    /\ LET figure == caller
           p == Len(heap) + 1
       IN  /\ heap' = Append(heap, figure)
           /\ figures_' = Append(figures_, p)
    /\ hist' = [Forget(hist) EXCEPT !.added = Append(@, caller),
                                    !.callerAdded = TRUE]
    /\ Called("Add")
    /\ UNCHANGED caller

\* the loop of Render: figure->print(out) for each figure of figures_
RECURSIVE PrintAll(_)
PrintAll(figs) ==
    IF figs = <<>> THEN <<>>
    ELSE print(Deref(Head(figs))) \o PrintAll(Tail(figs))

XmlHeader == "<?xml version=\"1.0\" encoding=\"UTF-8\" ?>"
SvgOpen == "<svg xmlns=\"http://www.w3.org/2000/svg\" version=\"1.1\">"
SvgClose == "</svg>"

\* Render as it would be if it handed its shapes over while printing them
RenderConsuming(failAt, exc) ==
    /\ sink' = Write(<<XmlHeader, SvgOpen>> \o PrintAll(figures_) \o <<SvgClose>>,
                     failAt, exc)
    /\ figures_' = <<>>
    /\ lastOp' = "Render"
    /\ hist' = [hist EXCEPT !.failAt = failAt, !.exc = exc,
                            !.prev = IF lastOp # "Render" THEN "none"
                                     ELSE IF sink.bad THEN "failed" ELSE "ok"]
    /\ UNCHANGED <<caller, heap>>

\* Render as it would be if it caught the failure and reset the stream
RenderSwallowing(failAt, exc) ==
    /\ sink' = [Write(<<XmlHeader, SvgOpen>> \o PrintAll(figures_)
                          \o <<SvgClose>>, failAt, exc)
                   EXCEPT !.bad = FALSE, !.thrown = FALSE]
    /\ lastOp' = "Render"
    /\ hist' = [hist EXCEPT !.failAt = failAt, !.exc = exc,
                            !.prev = IF lastOp # "Render" THEN "none"
                                     ELSE IF sink.bad THEN "failed" ELSE "ok"]
    /\ UNCHANGED <<caller, heap, figures_>>

\* Document::Render(out)
Render(failAt, exc) ==
    /\ sink' = Write(<<XmlHeader, SvgOpen>> \o PrintAll(figures_) \o <<SvgClose>>,
                     failAt, exc)
    /\ lastOp' = "Render"
    /\ hist' = [hist EXCEPT !.failAt = failAt, !.exc = exc,
                            !.prev = IF lastOp # "Render" THEN "none"
                                     ELSE IF sink.bad THEN "failed" ELSE "ok"]
    /\ UNCHANGED <<caller, heap, figures_>>

----------------------------------------------------------------------------
(* Inputs *)

MaxFailAt == 3

Indeterminates == {0, 6, 1234567}
FillColors == {NoneColor, RgbColor(Rgb(255, 198, 63)), RgbColor(Rgb(65535, 300, 0))}
FillNames == {"white"}
StrokeColors == {RgbColor(Rgb(255, 198, 63)), NamedColor("black")}
Widths == {16, 1234567}
LineCaps == {"round"}
LineJoins == {"bevel"}
Centers == {Point(50, 50), Point(250, -10)}
Radii == {6, -10}
Points == {Point(50, 50), Point(250, 250)}
Offsets == {Point(10, -10)}
FontSizes == {20}
Families == {"Verdana"}
Datas == {"C", "C++"}

InitHist(c) ==
    [base |-> c, set |-> <<>>, pts |-> <<>>, added |-> <<>>,
     callerAdded |-> FALSE, failAt |-> 0, exc |-> FALSE, prev |-> "none"]

\* an empty Document, and one freshly constructed shape in the caller's hands
InitWith(indeterminates) ==
    /\ \E kind \in Kinds, i \in indeterminates : caller = NewFigure(kind, i)
    /\ heap = <<>>
    /\ figures_ = <<>>
    /\ sink = FreshSink
    /\ lastOp = "Construct"
    /\ hist = InitHist(caller)

----------------------------------------------------------------------------
(* Building and printing one shape: every setter, every input *)

InitShape == InitWith(Indeterminates)

NextShape ==
    \/ \E kind \in Kinds, i \in Indeterminates : Construct(kind, i)
    \/ \E color \in FillColors : SetFillColor(color)
    \/ \E color \in FillNames : SetFillColorString(color)
    \/ \E color \in StrokeColors : SetStrokeColor(color)
    \/ \E width \in Widths : SetStrokeWidth(width)
    \/ \E lineCap \in LineCaps : SetStrokeLineCap(lineCap)
    \/ \E lineJoin \in LineJoins : SetStrokeLineJoin(lineJoin)
    \/ \E center \in Centers : SetCenter(center)
    \/ \E r \in Radii : SetRadius(r)
    \/ \E point \in Points : AddPoint(point)
    \/ \E point \in Points : SetPoint(point)
    \/ \E offset \in Offsets : SetOffset(offset)
    \/ \E size \in FontSizes : SetFontSize(size)
    \/ \E family \in Families : SetFontFamily(family)
    \/ \E data \in Datas : SetData(data)
    \/ CallPrint(0, FALSE)

SpecShape == InitShape /\ [][NextShape]_vars

----------------------------------------------------------------------------
(* Building a Document and rendering it: three shapes, fewer inputs *)

DocIndeterminates == {0, 6}
DocRadii == {6}
DocPoints == {Point(50, 50)}
DocDatas == {"C"}

InitDoc == InitWith(DocIndeterminates)

NextDoc ==
    \/ \E kind \in Kinds, i \in DocIndeterminates : Construct(kind, i)
    \/ \E r \in DocRadii : SetRadius(r)
    \/ \E point \in DocPoints : AddPoint(point)
    \/ \E data \in DocDatas : SetData(data)
    \/ Add
    \/ \E failAt \in 0..MaxFailAt, exc \in BOOLEAN : Render(failAt, exc)

SpecDoc == InitDoc /\ [][NextDoc]_vars

----------------------------------------------------------------------------
(* Reading the output text *)

\* the places where pat starts in s
Occ(s, pat) ==
    {i \in 1..(Len(s) - Len(pat) + 1) : SubSeq(s, i, i + Len(pat) - 1) = pat}

MinOf(S) == CHOOSE i \in S : \A j \in S : i <= j
MaxOf(S) == CHOOSE i \in S : \A j \in S : j <= i

\* the attribute value that follows the attribute name pat starting at i:
\* the text up to the next double quote
ValueAt(s, pat, i) ==
    LET from == i + Len(pat)
        to   == MinOf({j \in from..Len(s) : SubSeq(s, j, j) = "\""})
    IN  SubSeq(s, from, to - 1)

\* the bytes the sink received
Output == Flatten(sink.buf)

\* the text of the shapes of seq, one after the other
RECURSIVE ShapesText(_)
ShapesText(seq) ==
    IF seq = <<>> THEN "" ELSE Flatten(print(Head(seq))) \o ShapesText(Tail(seq))

\* the Document holds exactly the shapes of seq, as they were, in that order
DocumentIs(seq) ==
    /\ Len(figures_) = Len(seq)
    /\ \A i \in 1..Len(seq) : Deref(figures_[i]) = seq[i]

\* the number of writes a complete rendering of the added shapes makes
RECURSIVE WritesOf(_)
WritesOf(seq) ==
    IF seq = <<>> THEN 0 ELSE Len(print(Head(seq))) + WritesOf(Tail(seq))

\* the latest Render met a failing write
RenderFailed ==
    lastOp = "Render" /\ hist.failAt \in 1..(3 + WritesOf(hist.added))

----------------------------------------------------------------------------
(* Claims about the Document (SpecDoc) *)

\* C1: a Render that meets no write failure gives the sink the XML header,
\* the opening svg element, the text of every shape passed to Add, once each
\* and in the order of the Add calls, and the closing svg element; for an
\* empty Document that is the header followed by the empty envelope.
C1_RenderWritesShapesInOrder ==
    (lastOp = "Render" /\ ~RenderFailed) =>
        /\ Output = XmlHeader \o SvgOpen \o ShapesText(hist.added) \o SvgClose
        /\ hist.added = <<>> =>
             Output = "<?xml version=\"1.0\" encoding=\"UTF-8\" ?>"
                      \o "<svg xmlns=\"http://www.w3.org/2000/svg\" version=\"1.1\">"
                      \o "</svg>"

\* two different shapes were added and then rendered without failure
C1_Witness ==
    /\ lastOp = "Render" /\ ~RenderFailed
    /\ Len(hist.added) = 2
    /\ hist.added[1].kind = "Polyline" /\ hist.added[1].points_ # <<>>
    /\ hist.added[2].kind = "Circle"

\* C2: a Render changes neither figures_ nor any owned shape, and a Render
\* that directly follows a Render, neither meeting a write failure, gives
\* its sink the same bytes.
C2_RenderTwiceSameOutput ==
    [][ /\ lastOp' = "Render" => (figures_' = figures_ /\ heap' = heap)
        /\ (lastOp = "Render" /\ lastOp' = "Render" /\ ~sink.bad /\ ~sink'.bad)
             => Flatten(sink'.buf) = Flatten(sink.buf) ]_vars

\* a Document of two shapes rendered twice in a row without failure
C2_Witness ==
    /\ lastOp = "Render" /\ hist.prev = "ok" /\ ~sink.bad
    /\ Len(figures_) = 2

\* C3: when a write fails during Render the failure reaches the caller: the
\* sink is left in its failed state, the exception leaves Render when the
\* caller enabled stream exceptions, nothing is written after the failing
\* write (no retry), and the Document still holds the added shapes unchanged;
\* a Render that follows a failed one and meets no failure writes everything.
C3_WriteFailurePropagates ==
    /\ RenderFailed =>
         /\ sink.bad
         /\ hist.exc => sink.thrown
         /\ Len(sink.buf) = hist.failAt - 1
         /\ DocumentIs(hist.added)
    /\ (lastOp = "Render" /\ hist.prev = "failed" /\ ~RenderFailed) =>
         /\ ~sink.bad
         /\ Output = XmlHeader \o SvgOpen \o ShapesText(hist.added) \o SvgClose

\* a Render of a non-empty Document met a failing write, and the same
\* Document was then rendered again completely
C3_Witness ==
    /\ lastOp = "Render" /\ hist.prev = "failed" /\ ~RenderFailed
    /\ Len(figures_) >= 1

\* C5: the Document holds, in order, exactly the shapes passed to Add with
\* the values they had at the time of the call, each in an object of its own
\* that is neither the caller's object nor shared with another entry;
\* setters called on the caller's object afterwards do not reach them.
C5_DocumentOwnsItsShapes ==
    /\ DocumentIs(hist.added)
    /\ \A i \in 1..Len(figures_) :
         /\ figures_[i] # 0
         /\ \A j \in 1..Len(figures_) : i # j => figures_[i] # figures_[j]
    /\ (lastOp = "Render" /\ ~RenderFailed) =>
         Output = XmlHeader \o SvgOpen \o ShapesText(hist.added) \o SvgClose

\* the caller's object was added, then changed by a setter, then the
\* Document was rendered
C5_Witness ==
    /\ lastOp = "Render" /\ ~RenderFailed
    /\ hist.callerAdded
    /\ Len(figures_) >= 1
    /\ \A i \in 1..Len(figures_) : Deref(figures_[i]) # caller

----------------------------------------------------------------------------
(* Claims about one shape (SpecShape) *)

\* the value the calling code last passed for attribute a, if it passed one
WasSet(a) == a \in DOMAIN hist.set

\* the caller's shape has just been printed to a sink
Printed == lastOp = "print"

FillName == "fill=\""
StrokeName == "stroke=\""
WidthName == "stroke-width=\""
CapName == "stroke-linecap=\""
JoinName == "stroke-linejoin=\""

\* the font family of a Text goes out under the line-join attribute name
FamilyCount == IF caller.kind = "Text" /\ WasSet("fontFamily_") THEN 1 ELSE 0

\* C4 as stated: every serialization names all five style attributes, in one
\* fixed order, whichever of them are still at their default.
C4_AllStyleAttributesAlways ==
    Printed =>
        /\ Occ(Output, FillName) # {} /\ Occ(Output, StrokeName) # {}
        /\ Occ(Output, WidthName) # {} /\ Occ(Output, CapName) # {}
        /\ Occ(Output, JoinName) # {}
        /\ MinOf(Occ(Output, FillName)) < MinOf(Occ(Output, StrokeName))
        /\ MinOf(Occ(Output, StrokeName)) < MinOf(Occ(Output, WidthName))
        /\ MinOf(Occ(Output, WidthName)) < MinOf(Occ(Output, CapName))
        /\ MinOf(Occ(Output, CapName)) < MaxOf(Occ(Output, JoinName))

\* C4, amended: every serialization holds fill, stroke and stroke-width, once
\* each and in that order, whatever their values; stroke-linecap follows
\* exactly when a line cap was set, and after it a stroke-linejoin attribute
\* with the line join exactly when a line join was set.
C4_StyleAttributesInFixedOrder ==
    Printed =>
        LET fills   == Occ(Output, FillName)
            strokes == Occ(Output, StrokeName)
            widths  == Occ(Output, WidthName)
            caps    == Occ(Output, CapName)
            joins   == Occ(Output, JoinName)
        IN  /\ Cardinality(fills) = 1 /\ Cardinality(strokes) = 1
            /\ Cardinality(widths) = 1
            /\ MinOf(fills) < MinOf(strokes) /\ MinOf(strokes) < MinOf(widths)
            /\ Cardinality(caps) = IF WasSet("strokeLineCap_") THEN 1 ELSE 0
            /\ WasSet("strokeLineCap_") =>
                 /\ MinOf(widths) < MinOf(caps)
                 /\ ValueAt(Output, CapName, MinOf(caps)) = hist.set.strokeLineCap_.val
            /\ Cardinality(joins) - FamilyCount
                 = IF WasSet("strokeLineJoin_") THEN 1 ELSE 0
            /\ WasSet("strokeLineJoin_") =>
                 /\ MinOf(widths) < MaxOf(joins)
                 /\ \A c \in caps : c < MaxOf(joins)
                 /\ ValueAt(Output, JoinName, MaxOf(joins))
                      = hist.set.strokeLineJoin_.val

\* a shape printed with a line join set and no line cap set
C4_Witness ==
    /\ Printed
    /\ caller.kind = "Polyline"
    /\ WasSet("strokeLineJoin_") /\ ~WasSet("strokeLineCap_")
    /\ WasSet("fillColor_") /\ ~WasSet("strokeColor_")

\* C6: after any chain of setter calls on one shape, every attribute a setter
\* was called for holds the value of the last such call, every other
\* attribute holds the value it had when the chain began, and the points of a
\* Polyline are those of the AddPoint calls, in order.
C6_SettersMutateInPlace ==
    /\ caller.kind = hist.base.kind
    /\ DOMAIN caller = DOMAIN hist.base
    /\ \A a \in DOMAIN caller \ {"kind", "points_"} :
         caller[a] = IF WasSet(a) THEN hist.set[a] ELSE hist.base[a]
    /\ caller.kind = "Polyline" => caller.points_ = hist.base.points_ \o hist.pts

\* a chain of at least four setters on a Circle, one attribute left alone
C6_Witness ==
    /\ lastOp = "Set"
    /\ caller.kind = "Circle"
    /\ {"fillColor_", "strokeColor_", "radius_", "centerX_"} \subseteq DOMAIN hist.set
    /\ hist.set.radius_ # hist.base.radius_
    /\ ~WasSet("strokeWidth_")

\* the text the claim gives for a colour
ColorText(c) ==
    CASE c.tag = "none" -> "none"
      [] c.tag = "named" -> c.name
      [] c.tag = "rgb" -> "rgb(" \o ToString(c.rgb.red) \o "," \o ToString(c.rgb.green)
                               \o "," \o ToString(c.rgb.blue) \o ")"

\* the colour the calling code chose for attribute a (none if it chose none)
Chosen(a) == IF WasSet(a) THEN hist.set[a] ELSE NoneColor

\* C7: in a printed shape the fill and stroke values are the text of the
\* colour chosen: none for the absent colour, the name itself for a named
\* colour, rgb(r,g,b) in decimal without spaces and without clamping for an
\* RGB triple.
C7_ColorRendering ==
    Printed =>
        /\ ValueAt(Output, FillName, MinOf(Occ(Output, FillName)))
             = ColorText(Chosen("fillColor_"))
        /\ ValueAt(Output, StrokeName, MinOf(Occ(Output, StrokeName)))
             = ColorText(Chosen("strokeColor_"))
        /\ Chosen("fillColor_") = RgbColor(Rgb(65535, 300, 0)) =>
             ValueAt(Output, FillName, MinOf(Occ(Output, FillName)))
               = "rgb(65535,300,0)"

\* a shape printed with an RGB fill beyond 8 bits, a named stroke
C7_Witness ==
    /\ Printed
    /\ Chosen("fillColor_") = RgbColor(Rgb(65535, 300, 0))
    /\ Chosen("strokeColor_") = NamedColor("black")

\* the text the claim gives for a sequence of points
RECURSIVE PointsText(_)
PointsText(pts) ==
    IF pts = <<>> THEN ""
    ELSE FormatDouble(Head(pts).x) \o "," \o FormatDouble(Head(pts).y) \o " "
         \o PointsText(Tail(pts))

PointsName == "points=\""

\* C8: the points attribute of a printed Polyline lists the points of the
\* AddPoint calls in call order, each as "x,y " with the trailing space also
\* after the last; with no point the value is empty.
C8_PolylinePoints ==
    (Printed /\ caller.kind = "Polyline") =>
        LET value == ValueAt(Output, PointsName, MinOf(Occ(Output, PointsName)))
        IN  /\ value = PointsText(hist.pts)
            /\ hist.pts = <<>> => value = ""
            /\ hist.pts = <<Point(50, 50), Point(250, 250)>>
                 => value = "50,50 250,250 "

\* a Polyline printed after the same point was added twice
C8_Witness ==
    /\ Printed /\ caller.kind = "Polyline"
    /\ Len(hist.pts) >= 2
    /\ hist.pts[1] = hist.pts[2]

\* C9: in a printed Text the font family, when set, is the value of a
\* stroke-linejoin attribute placed after stroke-width and before
\* stroke-linecap; with the line join set as well the name occurs exactly
\* twice, first with the family and then with the join; with neither set it
\* does not occur.
C9_FontFamilyUnderLineJoinName ==
    (Printed /\ caller.kind = "Text") =>
        LET joins  == Occ(Output, JoinName)
            widths == Occ(Output, WidthName)
            caps   == Occ(Output, CapName)
            n      == (IF WasSet("fontFamily_") THEN 1 ELSE 0)
                      + (IF WasSet("strokeLineJoin_") THEN 1 ELSE 0)
        IN  /\ Cardinality(joins) = n
            /\ WasSet("fontFamily_") =>
                 /\ ValueAt(Output, JoinName, MinOf(joins)) = hist.set.fontFamily_.val
                 /\ MaxOf(widths) < MinOf(joins)
                 /\ \A c \in caps : MinOf(joins) < c
            /\ (WasSet("fontFamily_") /\ WasSet("strokeLineJoin_")) =>
                 /\ ValueAt(Output, JoinName, MaxOf(joins))
                      = hist.set.strokeLineJoin_.val
                 /\ \A c \in caps : c < MaxOf(joins)

\* a Text printed with font family, line cap and line join all set
C9_Witness ==
    /\ Printed /\ caller.kind = "Text"
    /\ WasSet("fontFamily_") /\ WasSet("strokeLineJoin_")
    /\ WasSet("strokeLineCap_")

\* C10: a shape printed straight after its construction, with no setter
\* called, gives one fixed output: the bytes do not depend on what the
\* object's storage held before the constructor ran.
C10_DefaultShapeOutputIsFixed ==
    (Printed /\ hist.set = <<>> /\ hist.pts = <<>>) =>
        \A i \in Indeterminates :
            Output = Flatten(print(NewFigure(caller.kind, i)))

====
